---- MODULE Spec2Model ----
(***************************************************************************)
(* Model of package circuitbreaker: CircuitBreaker.Execute and the three   *)
(* lock-protected methods allowRequest, recordSuccess and recordFailure,   *)
(* with one breaker shared by several request goroutines, each of which    *)
(* calls Execute once.                                                     *)
(*                                                                         *)
(* Time is counted in ticks of 10 seconds, so that DefaultConfig's         *)
(* ResetTimeout (30s) is 3 ticks and FailureTimeout (10s) is 1 tick. The   *)
(* code uses its time stamps only in differences (now - lastFailTime, the  *)
(* time left to a deadline), so the model keeps the differences: the time  *)
(* since lastFailTime, which stops growing once it is past ResetTimeout,   *)
(* and the time left to each call's deadline.                              *)
(*                                                                         *)
(* SpecStats adds a goroutine reading the breaker with GetState and         *)
(* GetStats, SpecHandlers a request handler that queries the database.     *)
(*                                                                         *)
(* SpecLimiter is the RateLimit middleware with its RateLimitStore: HTTP   *)
(* requests, each with a client IP as key, run GetLimiter and then Allow.  *)
(* rate.Limiter is a token bucket; it counts tokens in units of            *)
(* 1 / TicksPerToken token and time in ticks of its own clock, one unit    *)
(* refilled per tick, and keeps the time since its last call.              *)
(*                                                                         *)
(* SpecFair is Spec with the fairness of the scheduler and of time.        *)
(* SpecChain is the handler main builds, ConfigurableCORS in front of      *)
(* RateLimit in front of the mux; SpecRateConf is RateLimit deriving its   *)
(* rate.Limit from the Config; SpecPagination is a request for a page of   *)
(* users, from the query string to the PaginatedResult, with int at its    *)
(* width of 64 bits; SpecCounter is the counter handlers and the one row   *)
(* of counter_state.                                                       *)
(***************************************************************************)
EXTENDS Integers, Sequences, FiniteSets, TLC

\* ------------------------------------------------------------------ bounds
NumRequests == 3
MaxFailuresBound == 2
MaxRequestsBound == 2
NumCallers == 3
BurstBound == 2
NumCounterRequests == 3
PageBound == 3
PageSizeBound == 101
TotalBound == 11
RateLimitBound == 100

\* --------------------------------------------------------------- constants
StateClosed == "closed"
StateOpen == "open"
StateHalfOpen == "half-open"

ErrCircuitBreakerOpen == "circuit breaker is open"
ErrCircuitBreakerTimeout == "circuit breaker timeout"

\* the errors the wrapped operation may return, and nil
OpErrors == {"errA", "errB"}
Nil == "nil"

\* DefaultConfig: ResetTimeout 30s, FailureTimeout 10s, in ticks of 10s
ResetTimeoutTicks == 3
FailureTimeoutTicks == 1

\* the time one token takes to refill, 1 / rate, in ticks of the limiter's
\* clock; a bucket counts its tokens in units of 1 / TicksPerToken token, one
\* unit per tick
TicksPerToken == 2

\* the request goroutines, numbered in the order in which they call Execute;
\* each calls Execute once
Requests == 1..NumRequests

\* Config values New may be given: the thresholds range over small positive
\* values, the durations are those of DefaultConfig
Configs ==
    [MaxFailures : 1..MaxFailuresBound,
     ResetTimeout : {ResetTimeoutTicks},
     FailureTimeout : {FailureTimeoutTicks},
     MaxRequests : 1..MaxRequestsBound]

VARIABLES
    cb,         \* the CircuitBreaker struct: config, state, failures, requests,
                \* and sinceLastFail = now - lastFailTime
    pc,         \* per request: position inside Execute
    left,       \* per request: time left until timeoutCtx is done
    cancelled,  \* per request: timeoutCtx is done because the caller's ctx was
                \* cancelled
    ret,        \* per request: the value Execute is about to return
    late,       \* number of fn goroutines that run on after the select of
                \* their Execute took the deadline branch
    \* history variables
    opResult,   \* per request: what fn returned to the select ("none" if nothing)
    invoked,    \* per request: number of times fn was invoked
    lastCall,   \* the Execute that returned last: its return value and history
    hoAdmitted, \* calls admitted during the current half-open period
    hoSuccess,  \* successes recorded during the current half-open period
    sinceSuccess, \* failures recorded since the last recorded success (or since New)
    \* the health endpoint and the request handlers
    stats,      \* what the last GetState or GetStats returned
    handlerQuery, \* the last query a handler sent to the pool (history)
    \* the rate limiter
    store,      \* the RateLimitStore: rate, burst and the map limiters
    buckets,    \* the rate.Limiter objects ever made, by the caller that made them
    callers,    \* per HTTP request: position in the middleware, key, limiter held
    hist,       \* history of the limiter's answers
    probing,    \* the calls admitted during the current half-open period that
                \* have not returned (history)
    resp,       \* per HTTP request: its method and what has been written to its
                \* ResponseWriter, and the calls of the next handler
    counter,    \* the row of counter_state and the counter requests
    pagination, \* a call of parsePaginationParams and what follows from it
    rateConf    \* the Config as RateLimit reads it, and the limit it derives

breakerVars == <<cb, pc, left, cancelled, ret, late, opResult, invoked,
                 lastCall, hoAdmitted, hoSuccess, sinceSuccess, probing>>

\* the data layer and the configuration
storeVars == <<counter, pagination, rateConf>>

\* what no method of the breaker touches
outsideBreaker == <<stats, handlerQuery, store, buckets, callers, hist, resp,
                    counter, pagination, rateConf>>

limiterVars == <<store, buckets, callers, hist, resp>>

\* what the RateLimit middleware does not touch
outsideLimiter == <<breakerVars, stats, handlerQuery, storeVars>>

vars == <<cb, pc, left, cancelled, ret, late, opResult, invoked, lastCall,
          hoAdmitted, hoSuccess, sinceSuccess, stats, handlerQuery, store,
          buckets, callers, hist, probing, resp, counter, pagination, rateConf>>

\* ------------------------------------------------------- the breaker's code

\* time.Since(lastFailTime) as far as line 117 can tell: it stops growing
\* once it is past ResetTimeout
Elapsed(config, d) ==
    IF d > config.ResetTimeout THEN config.ResetTimeout + 1 ELSE d

\* New leaves lastFailTime the zero time, which is longer ago than any
\* ResetTimeout
New(config) ==
    [config |-> config, state |-> StateClosed, failures |-> 0,
     requests |-> 0, sinceLastFail |-> Elapsed(config, config.ResetTimeout + 1)]

\* mutant: the cooldown counts as elapsed already at exactly ResetTimeout
CooldownElapsedInclusive(b) == b.sinceLastFail >= b.config.ResetTimeout

\* now.Sub(cb.lastFailTime) > cb.config.ResetTimeout
CooldownElapsed(b) == b.sinceLastFail > b.config.ResetTimeout

\* mutant: a rejection while Open restarts the cooldown
allowRequestRestartsCooldown(b) ==
    CASE b.state = StateClosed -> [ok |-> TRUE, cb |-> b]
      [] b.state = StateOpen ->
            IF CooldownElapsed(b)
            THEN [ok |-> TRUE,
                  cb |-> [b EXCEPT !.state = StateHalfOpen, !.requests = 0]]
            ELSE [ok |-> FALSE, cb |-> [b EXCEPT !.sinceLastFail = 0]]
      [] b.state = StateHalfOpen ->
            [ok |-> b.requests < b.config.MaxRequests, cb |-> b]
      [] OTHER -> [ok |-> FALSE, cb |-> b]

\* allowRequest returns the decision and the breaker it leaves behind
allowRequest(b) ==
    CASE b.state = StateClosed -> [ok |-> TRUE, cb |-> b]
      [] b.state = StateOpen ->
            IF CooldownElapsed(b)
            THEN [ok |-> TRUE,
                  cb |-> [b EXCEPT !.state = StateHalfOpen, !.requests = 0]]
            ELSE [ok |-> FALSE, cb |-> b]
      [] b.state = StateHalfOpen ->
            [ok |-> b.requests < b.config.MaxRequests, cb |-> b]
      [] OTHER -> [ok |-> FALSE, cb |-> b]

\* mutant: the breaker closes one success too late
recordSuccessLate(b) ==
    CASE b.state = StateHalfOpen ->
            IF b.requests + 1 > b.config.MaxRequests
            THEN [b EXCEPT !.state = StateClosed, !.failures = 0, !.requests = 0]
            ELSE [b EXCEPT !.requests = b.requests + 1]
      [] b.state = StateClosed -> [b EXCEPT !.failures = 0]
      [] OTHER -> b

\* mutant: a success while Closed leaves failures as it is
recordSuccessKeepsFailures(b) ==
    CASE b.state = StateHalfOpen ->
            IF b.requests + 1 >= b.config.MaxRequests
            THEN [b EXCEPT !.state = StateClosed, !.failures = 0, !.requests = 0]
            ELSE [b EXCEPT !.requests = b.requests + 1]
      [] OTHER -> b

\* mutant: the last successful probe closes the breaker but leaves failures
recordSuccessClosesDirty(b) ==
    CASE b.state = StateHalfOpen ->
            IF b.requests + 1 >= b.config.MaxRequests
            THEN [b EXCEPT !.state = StateClosed, !.requests = 0]
            ELSE [b EXCEPT !.requests = b.requests + 1]
      [] b.state = StateClosed -> [b EXCEPT !.failures = 0]
      [] OTHER -> b

\* mutant: a success recorded while Open closes the breaker
recordSuccessClosesOpen(b) ==
    CASE b.state = StateHalfOpen ->
            IF b.requests + 1 >= b.config.MaxRequests
            THEN [b EXCEPT !.state = StateClosed, !.failures = 0, !.requests = 0]
            ELSE [b EXCEPT !.requests = b.requests + 1]
      [] b.state = StateClosed -> [b EXCEPT !.failures = 0]
      [] OTHER -> [b EXCEPT !.state = StateClosed, !.failures = 0]

\* mutant: requests is tested before it is incremented
recordSuccessTestsFirst(b) ==
    CASE b.state = StateHalfOpen ->
            IF b.requests >= b.config.MaxRequests
            THEN [b EXCEPT !.state = StateClosed, !.failures = 0, !.requests = 0]
            ELSE [b EXCEPT !.requests = b.requests + 1]
      [] b.state = StateClosed -> [b EXCEPT !.failures = 0]
      [] OTHER -> b

\* cb.requests++ and the test of line 139 are one branch on requests + 1
recordSuccess(b) ==
    CASE b.state = StateHalfOpen ->
            IF b.requests + 1 >= b.config.MaxRequests
            THEN [b EXCEPT !.state = StateClosed, !.failures = 0, !.requests = 0]
            ELSE [b EXCEPT !.requests = b.requests + 1]
      [] b.state = StateClosed -> [b EXCEPT !.failures = 0]
      [] OTHER -> b

\* mutant: the breaker opens one failure too late
recordFailureLate(b) ==
    LET b1 == [b EXCEPT !.failures = b.failures + 1, !.sinceLastFail = 0]
    IN  CASE b1.state = StateClosed ->
                IF b1.failures > b1.config.MaxFailures
                THEN [b1 EXCEPT !.state = StateOpen]
                ELSE b1
          [] b1.state = StateHalfOpen -> [b1 EXCEPT !.state = StateOpen]
          [] OTHER -> b1

\* mutant: a failure after a successful probe does not reopen the breaker
recordFailureProbeCredit(b) ==
    LET b1 == [b EXCEPT !.failures = b.failures + 1, !.sinceLastFail = 0]
    IN  CASE b1.state = StateClosed ->
                IF b1.failures >= b1.config.MaxFailures
                THEN [b1 EXCEPT !.state = StateOpen]
                ELSE b1
          [] b1.state = StateHalfOpen ->
                IF b1.requests = 0 THEN [b1 EXCEPT !.state = StateOpen] ELSE b1
          [] OTHER -> b1

\* mutant: a failure recorded while Open is counted but leaves lastFailTime
recordFailureOpenKeepsTime(b) ==
    LET b1 == [b EXCEPT !.failures = b.failures + 1,
                        !.sinceLastFail = IF b.state = StateOpen THEN @ ELSE 0]
    IN  CASE b1.state = StateClosed ->
                IF b1.failures >= b1.config.MaxFailures
                THEN [b1 EXCEPT !.state = StateOpen]
                ELSE b1
          [] b1.state = StateHalfOpen -> [b1 EXCEPT !.state = StateOpen]
          [] OTHER -> b1

recordFailure(b) ==
    LET b1 == [b EXCEPT !.failures = b.failures + 1, !.sinceLastFail = 0]
    IN  CASE b1.state = StateClosed ->
                IF b1.failures >= b1.config.MaxFailures
                THEN [b1 EXCEPT !.state = StateOpen]
                ELSE b1
          [] b1.state = StateHalfOpen -> [b1 EXCEPT !.state = StateOpen]
          [] OTHER -> b1

\* timeoutCtx.Done() is closed: the deadline passed or the caller's ctx was
\* cancelled (see Cancel)
CtxDone(p) == left[p] = 0

\* ---------------------------------------------------- the health endpoint
\* nothing has been read yet
NoStats ==
    [call |-> "none", state |-> "none", failures |-> 0, requests |-> 0,
     last_failure |-> 0]

\* the value GetState returns for breaker b
GetStateResult(b) ==
    [call |-> "GetState", state |-> b.state, failures |-> 0, requests |-> 0,
     last_failure |-> 0]

\* the map GetStats returns for breaker b; last_failure is given as its
\* distance from now
GetStatsResult(b) ==
    [call |-> "GetStats", state |-> b.state, failures |-> b.failures,
     requests |-> b.requests, last_failure |-> b.sinceLastFail]

\* no handler has sent a query yet
NoQuery == [handler |-> "none", state |-> "none", cooling |-> FALSE]

\* -------------------------------------------------------- the rate limiter
Callers == 1..NumCallers
Keys == {"ipA", "ipB"}

\* entry of the map limiters for a key that has none
NoEntry == 0

\* a slot of buckets in which no rate.Limiter has been made
NoBucket == [limit |-> 0, burst |-> 0, tokens |-> 0, sinceLast |-> 0]

Min(a, b) == IF a < b THEN a ELSE b

\* NewRateLimitStore(r, b): an empty map, rate r and burst b
NewRateLimitStore(r, b) ==
    [limiters |-> [k \in Keys |-> NoEntry], rate |-> r, burst |-> b]

\* the stores RateLimit may build: 1 / rate is TicksPerToken, the burst
\* ranges over small positive values
Stores == {NewRateLimitStore(TicksPerToken, b) : b \in 1..BurstBound}

\* rate.NewLimiter(r, b): a bucket that starts full
NewLimiter(r, b) ==
    [limit |-> r, burst |-> b, tokens |-> b * r, sinceLast |-> 0]

\* the tokens of bucket l after the refill for the time since its last call:
\* tokens = min(burst, tokens + elapsed * rate)
Refilled(l) == Min(l.burst * l.limit, l.tokens + l.sinceLast)

\* limiter.Allow(): refill, then take one token if there is one
Allow(l) ==
    LET ok == Refilled(l) >= l.limit
    IN  [ok |-> ok,
         limiter |-> [l EXCEPT !.tokens = IF ok THEN Refilled(l) - l.limit
                                                ELSE Refilled(l),
                               !.sinceLast = 0]]

NoCaller == [pc |-> "start", key |-> "none", limiter |-> NoEntry]

\* history of the limiter: per key the number of answers Allow has given
\* and the number of them that were true, and whether the calls for the key
\* have so far come one after another with no time passing; the key and
\* answer of the latest Allow
NoHist ==
    [calls |-> [k \in Keys |-> 0],
     allowed |-> [k \in Keys |-> 0],
     undisturbed |-> [k \in Keys |-> TRUE],
     last |-> [key |-> "none", ok |-> FALSE]]

\* no request has come for slot c of the middleware: no method, nothing
\* written to the ResponseWriter, the next handler not called
NoResponse == [method |-> "none", status |-> 0, retryAfter |-> "", next |-> 0]

\* http.StatusTooManyRequests and http.StatusOK
StatusTooManyRequests == 429
StatusOK == 200

\* ------------------------------------------------------- the counter store
CounterRequests == 1..NumCounterRequests
CounterOps == {"Increment", "Decrement", "Reset"}

\* counter_state holds one row, id = 1, whose count InitSchema sets to 0;
\* applied is the number of increments less the number of decrements the
\* row has taken since the last reset (history)
NoCounter ==
    [count |-> 0, applied |-> 0,
     reqs |-> [r \in CounterRequests |->
                  [pc |-> "start", op |-> "none", count |-> 0]]]

\* ------------------------------------------------------------- pagination
DefaultPageSize == 10
MaxPageSize == 100
MinPageSize == 5

\* Go's int has 64 bits: a value is kept as four limbs of 16 bits, the least
\* significant first, in two's complement
LimbBase == 65536

\* the int with value n, for |n| < 2^31
Int64(n) ==
    IF n >= 0
    THEN <<n % LimbBase, n \div LimbBase, 0, 0>>
    ELSE <<LimbBase - 1 - ((-n - 1) % LimbBase),
           LimbBase - 1 - ((-n - 1) \div LimbBase), LimbBase - 1, LimbBase - 1>>

MaxInt64 == <<LimbBase - 1, LimbBase - 1, LimbBase - 1, LimbBase \div 2 - 1>>
MinInt64 == <<0, 0, 0, LimbBase \div 2>>

IsNegative(x) == x[4] >= LimbBase \div 2

\* x < y for ints
Less(x, y) ==
    IF IsNegative(x) # IsNegative(y)
    THEN IsNegative(x)
    ELSE \E i \in 1..4 : x[i] < y[i] /\ \A j \in (i + 1)..4 : x[j] = y[j]

\* x - 1, wrapping around as Go's int does
Dec(x) ==
    [i \in 1..4 |->
        IF \A j \in 1..(i - 1) : x[j] = 0
        THEN (IF x[i] = 0 THEN LimbBase - 1 ELSE x[i] - 1)
        ELSE x[i]]

\* x * n for 0 <= n < 2^15, wrapping around as Go's int does
MulSmall(x, n) ==
    LET p1 == x[1] * n
        p2 == x[2] * n + p1 \div LimbBase
        p3 == x[3] * n + p2 \div LimbBase
        p4 == x[4] * n + p3 \div LimbBase
    IN  <<p1 % LimbBase, p2 % LimbBase, p3 % LimbBase, p4 % LimbBase>>

\* parsePaginationParams for a query string without page and page_size
DefaultQuery == [page |-> Int64(1), pageSize |-> Int64(DefaultPageSize)]

NoParams == [Page |-> Int64(0), PageSize |-> Int64(0), Offset |-> Int64(0)]

NoResult ==
    [Data |-> <<>>, Page |-> Int64(0), PageSize |-> Int64(0), Total |-> 0,
     TotalPages |-> 0, HasNext |-> FALSE, HasPrev |-> FALSE]

\* a request whose page and page_size have been read from the query string
NoPagination ==
    [pc |-> "parsed", page |-> Int64(1), pageSize |-> Int64(DefaultPageSize),
     params |-> NoParams, total |-> 0, rows |-> <<>>, result |-> NoResult]

\* ------------------------------------------------ the rate limit's config
\* RateLimitWindow is kept in seconds
DefaultRateConfig ==
    [RateLimit |-> 100, RateLimitWindow |-> 60, RateLimitBurst |-> 20]

\* RateLimit has not computed its rate.Limit; a rate.Limit is a number of
\* events per second, kept as the fraction num / den
NoLimit == [num |-> 0, den |-> 1]

\* the value of a variable whose component the program at hand does not have
Absent == "absent"

\* ------------------------------------------------------------------- Init
NoCall ==
    [ret |-> "none", opResult |-> "none", invoked |-> 0, recorded |-> <<>>,
     cancelled |-> FALSE]

\* a breaker just made by New from one of the configs C; nobody has called
\* Execute
BreakerInit(C) ==
    /\ cb \in {New(c) : c \in C}
    /\ pc = [p \in Requests |-> "start"]
    /\ left = [p \in Requests |-> 0]
    /\ cancelled = [p \in Requests |-> FALSE]
    /\ ret = [p \in Requests |-> "none"]
    /\ late = 0
    /\ opResult = [p \in Requests |-> "none"]
    /\ invoked = [p \in Requests |-> 0]
    /\ lastCall = NoCall
    /\ hoAdmitted = 0
    /\ hoSuccess = 0
    /\ sinceSuccess = 0
    /\ probing = {}
    /\ stats = NoStats
    /\ handlerQuery = NoQuery

\* a store just made by NewRateLimitStore, one of S; no request has come
LimiterInit(S) ==
    /\ store \in S
    /\ buckets = [c \in Callers |-> NoBucket]
    /\ callers = [c \in Callers |-> NoCaller]
    /\ hist = NoHist
    /\ resp = [c \in Callers |-> NoResponse]

\* the counter row as InitSchema leaves it, and no counter request yet
CounterInit == counter = NoCounter

\* a request for a page of users with one of the query strings Q has come
PaginationInit(Q) ==
    pagination \in {[NoPagination EXCEPT !.page = q.page,
                                         !.pageSize = q.pageSize] : q \in Q}

\* the Config is one of C, and RateLimit has not been called
RateConfInit(C) == rateConf \in {[cfg |-> c, limit |-> NoLimit] : c \in C}

\* the data layer and the configuration of a server started with no
\* environment set, and a request with an empty query string
StoreInit ==
    /\ CounterInit
    /\ PaginationInit({DefaultQuery})
    /\ RateConfInit({DefaultRateConfig})

\* the rest of the server is not there: a program that uses package
\* circuitbreaker and nothing else
NoServer ==
    /\ store = Absent
    /\ buckets = Absent
    /\ callers = Absent
    /\ hist = Absent
    /\ resp = Absent
    /\ counter = Absent
    /\ pagination = Absent
    /\ rateConf = Absent

Init ==
    /\ BreakerInit(Configs)
    /\ NoServer

\* ---------------------------------------------------------------- actions

\* request p is the next one to call Execute
Arrives(p) ==
    /\ pc[p] = "start"
    /\ \A q \in Requests : q < p => pc[q] # "start"

\* Execute returns v after recording the outcomes rec: the call's locals are
\* gone, and what it did is remembered in lastCall
Return(p, v, rec) ==
    /\ pc' = [pc EXCEPT ![p] = "returned"]
    /\ lastCall' = [ret |-> v, opResult |-> opResult[p],
                    invoked |-> invoked[p], recorded |-> rec,
                    cancelled |-> cancelled[p]]
    /\ ret' = [ret EXCEPT ![p] = "none"]
    /\ opResult' = [opResult EXCEPT ![p] = "none"]
    /\ invoked' = [invoked EXCEPT ![p] = 0]
    /\ cancelled' = [cancelled EXCEPT ![p] = FALSE]

\* Execute, lines 78-80: allowRequest says no, Execute returns at once
ExecuteRejected(p) ==
    /\ Arrives(p)
    /\ ~allowRequest(cb).ok
    /\ cb' = allowRequest(cb).cb
    /\ Return(p, ErrCircuitBreakerOpen, <<>>)
    /\ UNCHANGED <<left, late, hoAdmitted, hoSuccess, sinceSuccess, probing>>
    /\ UNCHANGED outsideBreaker

\* Execute, lines 78-90: allowRequest says yes, timeoutCtx and the channel
\* are made and the goroutine running fn is started
ExecuteAdmitted(p) ==
    /\ Arrives(p)
    /\ allowRequest(cb).ok
    /\ cb' = allowRequest(cb).cb
    /\ pc' = [pc EXCEPT ![p] = "select"]
    /\ left' = [left EXCEPT ![p] = cb.config.FailureTimeout]
    /\ invoked' = [invoked EXCEPT ![p] = @ + 1]
    /\ hoAdmitted' = IF cb'.state = StateHalfOpen
                     THEN (IF cb.state = StateHalfOpen THEN hoAdmitted + 1 ELSE 1)
                     ELSE hoAdmitted
    /\ hoSuccess' = IF cb.state = StateOpen THEN 0 ELSE hoSuccess
    /\ probing' = IF cb'.state = StateHalfOpen
                  THEN (IF cb.state = StateHalfOpen THEN probing \cup {p} ELSE {p})
                  ELSE probing
    /\ UNCHANGED <<cancelled, ret, late, opResult, lastCall, sinceSuccess>>
    /\ UNCHANGED outsideBreaker

\* mutant: Execute returns one fixed error for every error of fn
SelectDoneFixedError(p, r) ==
    /\ pc[p] = "select"
    /\ ret' = [ret EXCEPT ![p] = IF r # Nil THEN "errA" ELSE Nil]
    /\ pc' = [pc EXCEPT ![p] = IF r # Nil THEN "recordFailure"
                                          ELSE "recordSuccess"]
    /\ opResult' = [opResult EXCEPT ![p] = r]
    /\ left' = [left EXCEPT ![p] = 0]
    /\ cancelled' = [cancelled EXCEPT ![p] = FALSE]
    /\ UNCHANGED <<cb, late, invoked, lastCall, hoAdmitted, hoSuccess,
                   sinceSuccess,
                   probing>>
    /\ UNCHANGED outsideBreaker

\* fn returns r in the goroutine of lines 88-90 while Execute waits in the
\* select, and the select takes case err := <-done (lines 93-99). The channel
\* is private to the call, so the send and the receive are one step; the step
\* is enabled after the deadline too, when both cases of the select are ready
\* and either may be chosen.
SelectDone(p, r) ==
    /\ pc[p] = "select"
    /\ ret' = [ret EXCEPT ![p] = IF r # Nil THEN r ELSE Nil]
    /\ pc' = [pc EXCEPT ![p] = IF r # Nil THEN "recordFailure"
                                          ELSE "recordSuccess"]
    /\ opResult' = [opResult EXCEPT ![p] = r]
    /\ left' = [left EXCEPT ![p] = 0]
    /\ cancelled' = [cancelled EXCEPT ![p] = FALSE]
    /\ UNCHANGED <<cb, late, invoked, lastCall, hoAdmitted, hoSuccess,
                   sinceSuccess,
                   probing>>
    /\ UNCHANGED outsideBreaker

\* mutant: the deadline branch does not count against the breaker
SelectTimeoutNotCounted(p) ==
    /\ pc[p] = "select"
    /\ CtxDone(p)
    /\ ret' = [ret EXCEPT ![p] = ErrCircuitBreakerTimeout]
    /\ pc' = [pc EXCEPT ![p] = "recordSuccess"]
    /\ late' = late + 1
    /\ left' = [left EXCEPT ![p] = 0]
    /\ UNCHANGED <<cb, cancelled, opResult, invoked, lastCall, hoAdmitted,
                   hoSuccess, sinceSuccess,
                   probing>>
    /\ UNCHANGED outsideBreaker

\* mutant: a cancelled call returns the context's error
SelectTimeoutCtxErr(p) ==
    /\ pc[p] = "select"
    /\ CtxDone(p)
    /\ ret' = [ret EXCEPT ![p] = IF cancelled[p] THEN "context canceled"
                                 ELSE ErrCircuitBreakerTimeout]
    /\ pc' = [pc EXCEPT ![p] = "recordFailure"]
    /\ late' = late + 1
    /\ left' = [left EXCEPT ![p] = 0]
    /\ UNCHANGED <<cb, cancelled, opResult, invoked, lastCall, hoAdmitted,
                   hoSuccess, sinceSuccess,
                   probing>>
    /\ UNCHANGED outsideBreaker

\* mutant: the select has no case for timeoutCtx.Done(); the deadline is
\* looked at only once fn has returned
SelectTimeoutAfterResult(p) ==
    /\ pc[p] = "select"
    /\ CtxDone(p)
    /\ opResult[p] # "none"
    /\ ret' = [ret EXCEPT ![p] = ErrCircuitBreakerTimeout]
    /\ pc' = [pc EXCEPT ![p] = "recordFailure"]
    /\ late' = late + 1
    /\ left' = [left EXCEPT ![p] = 0]
    /\ UNCHANGED <<cb, cancelled, opResult, invoked, lastCall, hoAdmitted,
                   hoSuccess, sinceSuccess, probing>>
    /\ UNCHANGED outsideBreaker

\* select, case <-timeoutCtx.Done() (lines 100-102); the goroutine running fn
\* runs on
SelectTimeout(p) ==
    /\ pc[p] = "select"
    /\ CtxDone(p)
    /\ ret' = [ret EXCEPT ![p] = ErrCircuitBreakerTimeout]
    /\ pc' = [pc EXCEPT ![p] = "recordFailure"]
    /\ late' = late + 1
    /\ left' = [left EXCEPT ![p] = 0]
    /\ UNCHANGED <<cb, cancelled, opResult, invoked, lastCall, hoAdmitted,
                   hoSuccess, sinceSuccess,
                   probing>>
    /\ UNCHANGED outsideBreaker

\* mutant: a late success of fn is still recorded
LateOpReturnRecorded ==
    /\ late > 0
    /\ late' = late - 1
    /\ cb' = recordSuccess(cb)
    /\ UNCHANGED <<pc, left, cancelled, ret, opResult, invoked, lastCall,
                   hoAdmitted, hoSuccess, sinceSuccess,
                   probing>>
    /\ UNCHANGED outsideBreaker

\* fn returns after the select took the deadline branch: the result goes
\* into the buffered channel, which nobody reads any more
LateOpReturn ==
    /\ late > 0
    /\ late' = late - 1
    /\ UNCHANGED <<cb, pc, left, cancelled, ret, opResult, invoked, lastCall,
                   hoAdmitted, hoSuccess, sinceSuccess,
                   probing>>
    /\ UNCHANGED outsideBreaker

\* cb.recordSuccess() and return nil (lines 98-99)
RecordSuccess(p) ==
    /\ pc[p] = "recordSuccess"
    /\ cb' = recordSuccess(cb)
    /\ hoSuccess' = IF cb.state = StateHalfOpen THEN hoSuccess + 1 ELSE hoSuccess
    /\ sinceSuccess' = 0
    /\ probing' = IF cb'.state = StateHalfOpen THEN probing \ {p} ELSE {}
    /\ Return(p, ret[p], <<"success">>)
    /\ UNCHANGED <<left, late, hoAdmitted>>
    /\ UNCHANGED outsideBreaker

\* cb.recordFailure() and return the error (lines 95-96 and 101-102)
RecordFailure(p) ==
    /\ pc[p] = "recordFailure"
    /\ cb' = recordFailure(cb)
    /\ sinceSuccess' = sinceSuccess + 1
    /\ probing' = IF cb'.state = StateHalfOpen THEN probing \ {p} ELSE {}
    /\ Return(p, ret[p], <<"failure">>)
    /\ UNCHANGED <<left, late, hoAdmitted, hoSuccess>>
    /\ UNCHANGED outsideBreaker

\* the caller's ctx is cancelled while Execute waits in the select: timeoutCtx
\* is done at once, whatever time was left; cancelling a context that is done
\* already changes nothing
Cancel(p) ==
    /\ pc[p] = "select"
    /\ ~CtxDone(p)
    /\ cancelled' = [cancelled EXCEPT ![p] = TRUE]
    /\ left' = [left EXCEPT ![p] = 0]
    /\ UNCHANGED <<cb, pc, ret, late, opResult, invoked, lastCall,
                   hoAdmitted, hoSuccess, sinceSuccess,
                   probing>>
    /\ UNCHANGED outsideBreaker

\* one tick of time passes: lastFailTime is one tick further back and every
\* deadline one tick nearer
Tick ==
    /\ cb' = [cb EXCEPT !.sinceLastFail = Elapsed(cb.config, @ + 1)]
    /\ left' = [p \in Requests |-> IF left[p] > 0 THEN left[p] - 1 ELSE 0]
    /\ UNCHANGED <<pc, cancelled, ret, late, opResult, invoked, lastCall,
                   hoAdmitted, hoSuccess, sinceSuccess,
                   probing>>
    /\ UNCHANGED outsideBreaker

\* mutant: GetState brings an Open breaker whose cooldown is over to HalfOpen
GetStateRefreshes ==
    /\ stats = NoStats
    /\ stats' = GetStateResult(allowRequest(cb).cb)
    /\ cb' = allowRequest(cb).cb
    /\ UNCHANGED <<pc, left, cancelled, ret, late, opResult, invoked, lastCall,
                   hoAdmitted, hoSuccess, sinceSuccess,
                   probing>>
    /\ UNCHANGED <<handlerQuery, limiterVars, storeVars>>

\* GetState, called by a monitoring goroutine that makes one call at a time
GetState ==
    /\ stats = NoStats
    /\ stats' = GetStateResult(cb)
    /\ UNCHANGED breakerVars
    /\ UNCHANGED <<handlerQuery, limiterVars, storeVars>>

\* GetStats, called by the same goroutine
GetStats ==
    /\ stats = NoStats
    /\ stats' = GetStatsResult(cb)
    /\ UNCHANGED breakerVars
    /\ UNCHANGED <<handlerQuery, limiterVars, storeVars>>

\* the monitoring goroutine is done with the value it got
StatsDone ==
    /\ stats # NoStats
    /\ stats' = NoStats
    /\ UNCHANGED breakerVars
    /\ UNCHANGED <<handlerQuery, limiterVars, storeVars>>

Next ==
    \/ \E p \in Requests : ExecuteRejected(p)
    \/ \E p \in Requests : ExecuteAdmitted(p)
    \/ \E p \in Requests : \E r \in OpErrors \cup {Nil} : SelectDone(p, r)
    \/ \E p \in Requests : SelectTimeout(p)
    \/ \E p \in Requests : RecordSuccess(p)
    \/ \E p \in Requests : RecordFailure(p)
    \/ \E p \in Requests : Cancel(p)
    \/ LateOpReturn
    \/ Tick

Spec == Init /\ [][Next]_vars

\* the breaker with its callers and a goroutine that reads it
NextStats ==
    \/ Next
    \/ GetState
    \/ GetStats
    \/ StatsDone

SpecStats == Init /\ [][NextStats]_vars

\* Handlers.GetUsers: h.userStore.GetAll(r.Context()), which sends its query
\* with us.db.Query, a method of the embedded pool; the breaker held in the
\* same DB struct is not consulted. handlerQuery remembers the state the
\* breaker was in when the query went out.
GetUsers ==
    /\ handlerQuery' =
          [handler |-> "GetUsers", state |-> cb.state,
           cooling |-> cb.state = StateOpen /\ ~CooldownElapsed(cb)]
    /\ UNCHANGED breakerVars
    /\ UNCHANGED <<stats, limiterVars, storeVars>>

\* the breaker with callers of Execute, next to a handler serving requests
NextHandlers ==
    \/ Next
    \/ GetUsers

SpecHandlers == Init /\ [][NextHandlers]_vars

TypeOK ==
    /\ cb.state \in {StateClosed, StateOpen, StateHalfOpen}
    /\ cb.failures \in 0..NumRequests
    /\ cb.requests \in 0..NumRequests
    /\ cb.sinceLastFail \in 0..(cb.config.ResetTimeout + 1)
    /\ late \in 0..NumRequests
    /\ \A p \in Requests : left[p] \in 0..cb.config.FailureTimeout

\* ------------------------------------------------- steps, as seen from outside

\* request p's Execute runs allowRequest in this step
AdmissionStep(p) == pc[p] = "start" /\ pc'[p] # "start"

\* request p's Execute returns in this step
ReturnStep(p) == pc[p] # "returned" /\ pc'[p] = "returned"

\* request p records a failure, or a success, in this step
FailureStep(p) == ReturnStep(p) /\ lastCall'.recorded = <<"failure">>
SuccessStep(p) == ReturnStep(p) /\ lastCall'.recorded = <<"success">>

\* what a recorded failure does to the breaker, field by field
FailureUpdate ==
    /\ cb'.failures = cb.failures + 1
    /\ cb'.sinceLastFail = 0
    /\ cb'.requests = cb.requests
    /\ cb'.config = cb.config
    /\ cb.state = StateClosed =>
          cb'.state = (IF cb'.failures >= cb.config.MaxFailures
                       THEN StateOpen ELSE StateClosed)
    /\ cb.state = StateHalfOpen => cb'.state = StateOpen
    /\ cb.state = StateOpen => cb'.state = StateOpen

\* ------------------------------------------------------------------ claims

\* C1: with MaxFailures = N >= 1, the N-th failure recorded in a row (no
\* success recorded since New or since the last success) leaves the breaker
\* Open, and an Execute that then arrives while now - lastFailTime <=
\* ResetTimeout returns ErrCircuitBreakerOpen without invoking fn.
C1_OpensAfterMaxFailures ==
    [][\A p \in Requests :
        /\ (FailureStep(p) /\ sinceSuccess' >= cb.config.MaxFailures)
              => cb'.state = StateOpen
        /\ (AdmissionStep(p) /\ cb.state = StateOpen
              /\ sinceSuccess >= cb.config.MaxFailures
              /\ cb.sinceLastFail <= cb.config.ResetTimeout)
              => /\ pc'[p] = "returned"
                 /\ lastCall'.ret = ErrCircuitBreakerOpen
                 /\ lastCall'.invoked = 0
                 /\ invoked'[p] = 0]_vars

\* two failures in a row opened a breaker with MaxFailures = 2, and the
\* third request was rejected
C1_Witness ==
    /\ cb.config.MaxFailures = 2
    /\ cb.state = StateOpen
    /\ cb.failures = 2
    /\ sinceSuccess = 2
    /\ cb.sinceLastFail <= cb.config.ResetTimeout
    /\ pc[3] = "returned"
    /\ lastCall.ret = ErrCircuitBreakerOpen
    /\ lastCall.invoked = 0

\* C2: during one half-open period the number of calls admitted to fn never
\* exceeds MaxRequests.
C2_HalfOpenAdmissionsBounded ==
    cb.state = StateHalfOpen => hoAdmitted <= cb.config.MaxRequests

\* C3: an Execute that finds the breaker Open is rejected with
\* ErrCircuitBreakerOpen when now - lastFailTime <= ResetTimeout, and is
\* admitted when now - lastFailTime > ResetTimeout; on admission the breaker
\* is HalfOpen with requests = 0 when fn starts.
C3_OpenAdmission ==
    [][\A p \in Requests :
        (AdmissionStep(p) /\ cb.state = StateOpen) =>
            IF cb.sinceLastFail <= cb.config.ResetTimeout
            THEN /\ pc'[p] = "returned"
                 /\ lastCall'.ret = ErrCircuitBreakerOpen
                 /\ cb'.state = StateOpen
            ELSE /\ pc'[p] = "select"
                 /\ invoked'[p] = 1
                 /\ cb'.state = StateHalfOpen
                 /\ cb'.requests = 0]_vars

\* a request was rejected during the cooldown and a later one admitted after
\* it: the breaker is HalfOpen while that one's fn runs
C3_Witness ==
    \E q \in Requests :
        /\ lastCall.ret = ErrCircuitBreakerOpen
        /\ pc[q] = "select"
        /\ invoked[q] = 1
        /\ cb.state = StateHalfOpen
        /\ cb.requests = 0
        /\ hoAdmitted = 1
        /\ cb.sinceLastFail = cb.config.ResetTimeout + 1

\* C4: with MaxRequests = M >= 1, each of the first M-1 successes recorded in
\* a half-open period leaves the breaker HalfOpen with requests one larger,
\* and the M-th makes it Closed with failures = 0 and requests = 0.
C4_HalfOpenRecovery ==
    [][\A p \in Requests :
        (SuccessStep(p) /\ cb.state = StateHalfOpen) =>
            /\ hoSuccess' <= cb.config.MaxRequests
            /\ IF hoSuccess' < cb.config.MaxRequests
               THEN /\ cb'.state = StateHalfOpen
                    /\ cb'.requests = cb.requests + 1
                    /\ cb'.requests = hoSuccess'
               ELSE /\ cb'.state = StateClosed
                    /\ cb'.failures = 0
                    /\ cb'.requests = 0]_vars

C4_Witness ==
    /\ cb.config.MaxRequests = 2
    /\ hoSuccess = 2
    /\ cb.state = StateClosed
    /\ cb.failures = 0
    /\ cb.requests = 0
    /\ lastCall.recorded = <<"success">>

\* C5: a failure recorded while the breaker is HalfOpen makes it Open in that
\* step, whatever requests is, and sets lastFailTime to the time of the step.
C5_HalfOpenRelapse ==
    [][\A p \in Requests :
        (FailureStep(p) /\ cb.state = StateHalfOpen) =>
            /\ cb'.state = StateOpen
            /\ cb'.sinceLastFail = 0]_vars

\* the breaker reopened from HalfOpen after one successful probe
C5_Witness ==
    /\ cb.state = StateOpen
    /\ cb.requests = 1
    /\ hoSuccess = 1
    /\ hoAdmitted = 2
    /\ cb.sinceLastFail = 0
    /\ lastCall.recorded = <<"failure">>

\* C6: an Execute rejected with ErrCircuitBreakerOpen does not invoke fn and
\* leaves state, failures, requests and lastFailTime as they were.
C6_RejectionChangesNothing ==
    [][\A p \in Requests :
        (AdmissionStep(p) /\ pc'[p] = "returned") =>
            /\ lastCall'.ret = ErrCircuitBreakerOpen
            /\ cb' = cb
            /\ lastCall'.invoked = 0
            /\ lastCall'.recorded = <<>>
            /\ late' = late]_vars

C6_Witness ==
    /\ lastCall.ret = ErrCircuitBreakerOpen
    /\ lastCall.invoked = 0
    /\ lastCall.recorded = <<>>
    /\ cb.state = StateOpen
    /\ cb.sinceLastFail > 0
    /\ cb.sinceLastFail <= cb.config.ResetTimeout

\* C7: when the select finds timeoutCtx done and no result of fn received,
\* Execute returns ErrCircuitBreakerTimeout, and the failure it records
\* changes the breaker as an fn error does: failures + 1, lastFailTime = now,
\* Closed -> Open when failures >= MaxFailures, HalfOpen -> Open always.
C7_TimeoutIsFailure ==
    [][\A p \in Requests :
        /\ (pc[p] = "select" /\ pc'[p] # "select" /\ opResult'[p] = "none") =>
              /\ left[p] = 0
              /\ ret'[p] = ErrCircuitBreakerTimeout
              /\ pc'[p] = "recordFailure"
        /\ (pc[p] = "recordFailure" /\ pc'[p] # "recordFailure") =>
              /\ FailureStep(p)
              /\ FailureUpdate
              /\ lastCall'.ret = ret[p]
        /\ (ReturnStep(p) /\ ret[p] = ErrCircuitBreakerTimeout) =>
              pc[p] = "recordFailure"]_vars

\* a call whose deadline passed (its ctx was not cancelled) returned
\* ErrCircuitBreakerTimeout, and that failure opened the breaker
C7_Witness ==
    /\ lastCall.ret = ErrCircuitBreakerTimeout
    /\ lastCall.opResult = "none"
    /\ ~lastCall.cancelled
    /\ lastCall.recorded = <<"failure">>
    /\ cb.state = StateOpen
    /\ cb.failures = cb.config.MaxFailures
    /\ cb.sinceLastFail = 0

\* C8: when fn returns an error to the select, Execute returns that same
\* error and records one failure; Execute returns nil only when fn returned
\* nil, and then it records one success and no failure.
C8_ErrorsPassThrough ==
    /\ lastCall.opResult \in OpErrors =>
          lastCall.ret = lastCall.opResult /\ lastCall.recorded = <<"failure">>
    /\ lastCall.ret = Nil =>
          lastCall.opResult = Nil /\ lastCall.recorded = <<"success">>
    /\ lastCall.opResult = Nil => lastCall.ret = Nil
    /\ \A p \in Requests :
          opResult[p] # "none" => ret[p] = opResult[p]

C8_Witness ==
    /\ lastCall.ret = "errB"
    /\ lastCall.opResult = "errB"
    /\ lastCall.recorded = <<"failure">>

\* C9: an admitted Execute has invoked fn exactly once and recorded exactly
\* one outcome when it returns, a rejected one has invoked fn zero times and
\* recorded nothing, and an fn that returns after the select took the
\* deadline branch changes neither the breaker nor what was recorded.
C9_Returned ==
    /\ lastCall.ret = ErrCircuitBreakerOpen =>
          lastCall.invoked = 0 /\ lastCall.recorded = <<>>
    /\ lastCall.ret \notin {ErrCircuitBreakerOpen, "none"} =>
          lastCall.invoked = 1 /\ Len(lastCall.recorded) = 1
    /\ \A p \in Requests :
          /\ invoked[p] <= 1
          /\ pc[p] \in {"select", "recordSuccess", "recordFailure"} =>
                invoked[p] = 1

C9_OneCallOneOutcome ==
    /\ []C9_Returned
    /\ [][late' < late =>
            /\ cb' = cb
            /\ lastCall' = lastCall
            /\ pc' = pc
            /\ ret' = ret]_vars

\* a call returned on the deadline branch, and its fn has returned since
C9_Witness ==
    /\ lastCall.ret = ErrCircuitBreakerTimeout
    /\ lastCall.invoked = 1
    /\ lastCall.recorded = <<"failure">>
    /\ late = 0
    /\ \A p \in Requests : pc[p] = "returned"

\* C10: in Closed a recorded success sets failures to 0, and the breaker goes
\* from Closed to Open only in a step that records a failure which is the
\* MaxFailures-th failure since the last recorded success (or since New), so
\* failures with a recorded success between them do not open it.
C10_ClosedCountsConsecutiveFailures ==
    [][/\ (cb.state = StateClosed /\ \E p \in Requests : SuccessStep(p))
            => cb'.failures = 0 /\ cb'.state = StateClosed
       /\ (cb.state = StateClosed /\ cb'.state = StateOpen)
            => /\ \E p \in Requests : FailureStep(p)
               /\ sinceSuccess' = cb.config.MaxFailures
       /\ (cb.state = StateClosed /\ (\E p \in Requests : FailureStep(p))
              /\ sinceSuccess' < cb.config.MaxFailures)
            => cb'.state = StateClosed]_vars

\* MaxFailures = 2 and three calls recorded an outcome, the last a failure
\* after a success: the breaker is still Closed, counting one failure
C10_Witness ==
    /\ cb.config.MaxFailures = 2
    /\ cb.state = StateClosed
    /\ cb.failures = 1
    /\ sinceSuccess = 1
    /\ lastCall.recorded = <<"failure">>
    /\ \A p \in Requests : pc[p] = "returned"

\* ------------------------------------------- the RateLimit middleware
\* request c is being served: it is past getClientIP and has not yet had its
\* answer from Allow
InFlight(c) == callers[c].pc \in {"create", "allow"}

\* mutant: every client IP is looked up under one key
RateLimitLookupSharedKey(c, k) ==
    /\ callers[c].pc = "start"
    /\ \A d \in Callers : d < c => callers[d].pc # "start"
    /\ callers' = [callers EXCEPT ![c] =
          IF store.limiters["ipA"] # NoEntry
          THEN [pc |-> "allow", key |-> k, limiter |-> store.limiters["ipA"]]
          ELSE [pc |-> "create", key |-> k, limiter |-> NoEntry]]
    /\ hist' = [hist EXCEPT !.undisturbed[k] =
          @ /\ ~\E d \in Callers : InFlight(d) /\ callers[d].key = k]
    /\ UNCHANGED <<store, buckets, resp>>
    /\ UNCHANGED outsideLimiter

\* the handler of RateLimit, lines 155-157, for request c whose client IP is
\* k, up to the first half of GetLimiter (lines 132-134): the map is read
\* under the read lock
RateLimitLookup(c, k) ==
    /\ callers[c].pc = "start"
    /\ \A d \in Callers : d < c => callers[d].pc # "start"
    /\ callers' = [callers EXCEPT ![c] =
          IF store.limiters[k] # NoEntry
          THEN [pc |-> "allow", key |-> k, limiter |-> store.limiters[k]]
          ELSE [pc |-> "create", key |-> k, limiter |-> NoEntry]]
    /\ hist' = [hist EXCEPT !.undisturbed[k] =
          @ /\ ~\E d \in Callers : InFlight(d) /\ callers[d].key = k]
    /\ UNCHANGED <<store, buckets, resp>>
    /\ UNCHANGED outsideLimiter

\* mutant: the new limiter is returned but not put into the map
GetLimiterCreateNotStored(c) ==
    /\ callers[c].pc = "create"
    /\ buckets' = [buckets EXCEPT ![c] = NewLimiter(store.rate, store.burst)]
    /\ callers' = [callers EXCEPT ![c].pc = "allow", ![c].limiter = c]
    /\ UNCHANGED <<store, hist, resp>>
    /\ UNCHANGED outsideLimiter

\* mutant: rate and burst change places in the call of rate.NewLimiter
GetLimiterCreateSwapped(c) ==
    /\ callers[c].pc = "create"
    /\ buckets' = [buckets EXCEPT ![c] = NewLimiter(store.burst, store.rate)]
    /\ store' = [store EXCEPT !.limiters[callers[c].key] = c]
    /\ callers' = [callers EXCEPT ![c].pc = "allow", ![c].limiter = c]
    /\ UNCHANGED <<hist, resp>>
    /\ UNCHANGED outsideLimiter

\* the second half of GetLimiter (lines 136-141) for a request that found no
\* entry: under the write lock a new limiter is made and put into the map
GetLimiterCreate(c) ==
    /\ callers[c].pc = "create"
    /\ buckets' = [buckets EXCEPT ![c] = NewLimiter(store.rate, store.burst)]
    /\ store' = [store EXCEPT !.limiters[callers[c].key] = c]
    /\ callers' = [callers EXCEPT ![c].pc = "allow", ![c].limiter = c]
    /\ UNCHANGED <<hist, resp>>
    /\ UNCHANGED outsideLimiter

\* mutant: the test of line 159 is inverted
RateLimitAllowInverted(c) ==
    /\ callers[c].pc = "allow"
    /\ LET l == callers[c].limiter
           r == Allow(buckets[l])
       IN  /\ buckets' = [buckets EXCEPT ![l] = r.limiter]
           /\ callers' = [callers EXCEPT ![c].pc =
                              IF r.ok THEN "429" ELSE "next"]
           /\ hist' = [hist EXCEPT
                          !.calls[callers[c].key] = @ + 1,
                          !.allowed[callers[c].key] = IF r.ok THEN @ ELSE @ + 1,
                          !.last = [key |-> callers[c].key, ok |-> ~r.ok]]
           /\ resp' = [resp EXCEPT ![c] =
                          IF r.ok
                          THEN [@ EXCEPT !.status = StatusTooManyRequests,
                                         !.retryAfter = "60"]
                          ELSE [@ EXCEPT !.next = @ + 1]]
    /\ UNCHANGED store
    /\ UNCHANGED outsideLimiter

\* mutant: the return after http.Error is missing, a refused request goes on
\* to the next handler
RateLimitAllowFallsThrough(c) ==
    /\ callers[c].pc = "allow"
    /\ LET l == callers[c].limiter
           r == Allow(buckets[l])
       IN  /\ buckets' = [buckets EXCEPT ![l] = r.limiter]
           /\ callers' = [callers EXCEPT ![c].pc =
                              IF r.ok THEN "next" ELSE "429"]
           /\ hist' = [hist EXCEPT
                          !.calls[callers[c].key] = @ + 1,
                          !.allowed[callers[c].key] = IF r.ok THEN @ + 1 ELSE @,
                          !.last = [key |-> callers[c].key, ok |-> r.ok]]
           /\ resp' = [resp EXCEPT ![c] =
                          IF r.ok
                          THEN [@ EXCEPT !.next = @ + 1]
                          ELSE [@ EXCEPT !.status = StatusTooManyRequests,
                                         !.retryAfter = "60",
                                         !.next = @ + 1]]
    /\ UNCHANGED store
    /\ UNCHANGED outsideLimiter

\* lines 159-171: limiter.Allow() on the limiter GetLimiter returned, and
\* the answer to the request: Retry-After and http.Error with status 429,
\* or the call of next.ServeHTTP
RateLimitAllow(c) ==
    /\ callers[c].pc = "allow"
    /\ LET l == callers[c].limiter
           r == Allow(buckets[l])
       IN  /\ buckets' = [buckets EXCEPT ![l] = r.limiter]
           /\ callers' = [callers EXCEPT ![c].pc =
                              IF r.ok THEN "next" ELSE "429"]
           /\ hist' = [hist EXCEPT
                          !.calls[callers[c].key] = @ + 1,
                          !.allowed[callers[c].key] = IF r.ok THEN @ + 1 ELSE @,
                          !.last = [key |-> callers[c].key, ok |-> r.ok]]
           /\ resp' = [resp EXCEPT ![c] =
                          IF r.ok
                          THEN [@ EXCEPT !.next = @ + 1]
                          ELSE [@ EXCEPT !.status = StatusTooManyRequests,
                                         !.retryAfter = "60"]]
    /\ UNCHANGED store
    /\ UNCHANGED outsideLimiter

\* one tick of the limiter's clock passes: every bucket's last call is one
\* tick further back (once the time suffices to fill the bucket, more of it
\* makes no difference to Refilled)
LimiterTick ==
    /\ buckets' = [c \in Callers |->
          IF buckets[c] = NoBucket THEN NoBucket
          ELSE [buckets[c] EXCEPT !.sinceLast =
                   Min(buckets[c].burst * buckets[c].limit - buckets[c].tokens,
                       @ + 1)]]
    /\ hist' = [hist EXCEPT !.undisturbed = [k \in Keys |->
          @[k] /\ ~\E d \in Callers : callers[d].key = k]]
    /\ UNCHANGED <<store, callers, resp>>
    /\ UNCHANGED outsideLimiter

\* a store of any of the configurations and a breaker that nobody calls
InitLimiter ==
    /\ BreakerInit({[MaxFailures |-> 1, ResetTimeout |-> ResetTimeoutTicks,
                     FailureTimeout |-> FailureTimeoutTicks,
                     MaxRequests |-> 1]})
    /\ LimiterInit(Stores)
    /\ StoreInit

NextLimiter ==
    \/ \E c \in Callers : \E k \in Keys : RateLimitLookup(c, k)
    \/ \E c \in Callers : GetLimiterCreate(c)
    \/ \E c \in Callers : RateLimitAllow(c)
    \/ LimiterTick

SpecLimiter == InitLimiter /\ [][NextLimiter]_vars

LimiterTypeOK ==
    /\ store.burst \in 1..BurstBound
    /\ \A k \in Keys : store.limiters[k] \in {NoEntry} \cup Callers
    /\ \A c \in Callers :
          /\ callers[c].pc \in {"start", "create", "allow", "next", "429"}
          /\ buckets[c].tokens \in 0..(store.burst * store.rate)
          /\ buckets[c].sinceLast \in 0..(store.burst * store.rate)

\* ------------------------------------------------------------------ claims

\* C11: the breaker starts Closed, and every step keeps its state or moves it
\* Closed -> Open, Open -> HalfOpen, HalfOpen -> Closed or HalfOpen -> Open;
\* no step moves it Closed -> HalfOpen or Open -> Closed.
C11_Moves ==
    {<<StateClosed, StateOpen>>, <<StateOpen, StateHalfOpen>>,
     <<StateHalfOpen, StateClosed>>, <<StateHalfOpen, StateOpen>>}

C11_StateMachine ==
    /\ cb.state = StateClosed
    /\ [][cb'.state = cb.state \/ <<cb.state, cb'.state>> \in C11_Moves]_vars

\* the breaker went Closed -> Open -> HalfOpen -> Closed while another
\* admitted call is still waiting for its fn
C11_Witness ==
    /\ cb.state = StateClosed
    /\ hoAdmitted >= 1
    /\ hoSuccess = cb.config.MaxRequests
    /\ lastCall.recorded = <<"success">>
    /\ \E p \in Requests : pc[p] = "select"

\* C12: an admitted Execute whose select ends because the caller's ctx was
\* cancelled (timeoutCtx done before its deadline, no result of fn received)
\* returns ErrCircuitBreakerTimeout after recording exactly one failure.
C12_CancelIsTimeoutFailure ==
    /\ lastCall.cancelled =>
          /\ lastCall.ret = ErrCircuitBreakerTimeout
          /\ lastCall.recorded = <<"failure">>
          /\ lastCall.invoked = 1
          /\ lastCall.opResult = "none"
    /\ \A p \in Requests :
          (cancelled[p] /\ pc[p] # "select") =>
              /\ pc[p] = "recordFailure"
              /\ ret[p] = ErrCircuitBreakerTimeout

\* the failure of a cancelled call opened the breaker
C12_Witness ==
    /\ lastCall.cancelled
    /\ lastCall.ret = ErrCircuitBreakerTimeout
    /\ lastCall.recorded = <<"failure">>
    /\ cb.state = StateOpen
    /\ cb.failures = cb.config.MaxFailures
    /\ cb.sinceLastFail = 0

\* C13: GetState and GetStats leave state, failures, requests and
\* lastFailTime as they are and return the breaker's fields as they are at
\* that moment; an Open breaker whose cooldown is over stays Open.
C13_ReadsChangeNothing ==
    [][(stats = NoStats /\ stats' # NoStats) =>
          /\ cb' = cb
          /\ stats' \in {GetStateResult(cb), GetStatsResult(cb)}
          /\ stats'.state = cb.state]_vars

\* GetStats has just read an Open breaker whose cooldown is over, and the
\* breaker is still Open
C13_Witness ==
    /\ stats.call = "GetStats"
    /\ stats.state = StateOpen
    /\ stats.last_failure > cb.config.ResetTimeout
    /\ cb.state = StateOpen
    /\ CooldownElapsed(cb)

\* C14: with MaxFailures >= 1, in every state of the breaker between two of
\* its (atomic) methods, and so in every map GetStats returns, state = Closed
\* implies failures < MaxFailures.
C14_ClosedBelowMaxFailures ==
    /\ cb.config.MaxFailures >= 1
    /\ cb.state = StateClosed => cb.failures < cb.config.MaxFailures
    /\ (stats.call = "GetStats" /\ stats.state = StateClosed) =>
          stats.failures < cb.config.MaxFailures

\* GetStats read a Closed breaker one failure short of opening while a call
\* was waiting for its fn
C14_Witness ==
    /\ stats.call = "GetStats"
    /\ stats.state = StateClosed
    /\ cb.config.MaxFailures = 2
    /\ stats.failures = 1
    /\ \E p \in Requests : pc[p] = "select"

\* C15: no query of a request handler reaches the database while the breaker
\* is Open and its cooldown has not elapsed.
C15_HandlersBehindBreaker ==
    handlerQuery.handler # "none" => ~handlerQuery.cooling

\* the limiters made so far for key k
BucketsOf(k) ==
    {c \in Callers : buckets[c] # NoBucket /\ callers[c].key = k}

\* request c gets its answer from Allow in this step
AllowStep(c) == callers[c].pc = "allow" /\ callers'[c].pc # "allow"

\* C16: for each key at most one limiter is ever made, and every request
\* that has its limiter from GetLimiter holds the one the map has for its key.
C16_OneBucketPerKey ==
    /\ \A k \in Keys : Cardinality(BucketsOf(k)) <= 1
    /\ \A c \in Callers :
          callers[c].limiter # NoEntry =>
              callers[c].limiter = store.limiters[callers[c].key]

\* C17: for a key whose requests have come one after another with no time
\* passing since the first, the first burst answers of Allow are true and
\* every later one is false.
C17_BurstThenDeny ==
    \A k \in Keys :
        hist.undisturbed[k] =>
            /\ hist.allowed[k] = Min(hist.calls[k], store.burst)
            /\ (hist.last.key = k /\ hist.calls[k] > 0) =>
                  (hist.last.ok <=> hist.calls[k] <= store.burst)

\* burst = 2: three requests of one client, one after another at one moment;
\* the third has just been refused
C17_Witness ==
    \E k \in Keys :
        /\ store.burst = 2
        /\ hist.undisturbed[k]
        /\ hist.calls[k] = 3
        /\ hist.allowed[k] = 2
        /\ hist.last = [key |-> k, ok |-> FALSE]

\* C18: a step of a request with key A leaves the map entry, the limiters
\* and the answers counted for every other key as they are.
C18_KeysIndependent ==
    [][\A c \in Callers :
        callers'[c] # callers[c] =>
            \A k \in Keys \ {callers'[c].key} :
                /\ store'.limiters[k] = store.limiters[k]
                /\ \A b \in BucketsOf(k) : buckets'[b] = buckets[b]
                /\ hist'.calls[k] = hist.calls[k]
                /\ hist'.allowed[k] = hist.allowed[k]]_vars

\* ipA has used up its burst and been refused, and then the first request
\* of ipB was let through
C18_Witness ==
    /\ hist.allowed["ipA"] = store.burst
    /\ hist.calls["ipA"] > store.burst
    /\ hist.undisturbed["ipA"]
    /\ hist.calls["ipB"] = 1
    /\ hist.last = [key |-> "ipB", ok |-> TRUE]

\* C19: an Allow on a bucket that has no tokens and whose last call was
\* exactly 1 / rate ago is true and leaves the bucket with no tokens at that
\* moment, so that an Allow following at once is false; an Allow that finds
\* less than one token after the refill is false; the tokens of every
\* bucket stay within 0..burst.
C19_TokensInRange ==
    \A c \in Callers :
        buckets[c] # NoBucket =>
            /\ buckets[c].tokens >= 0
            /\ buckets[c].tokens <= store.burst * store.rate

C19_RefillOneToken ==
    /\ []C19_TokensInRange
    /\ [][\A c \in Callers :
            AllowStep(c) =>
                LET l == callers[c].limiter
                IN  /\ (buckets[l].tokens = 0
                          /\ buckets[l].sinceLast = store.rate) =>
                            /\ callers'[c].pc = "next"
                            /\ buckets'[l].tokens = 0
                            /\ buckets'[l].sinceLast = 0
                    /\ buckets[l].tokens + buckets[l].sinceLast < store.rate =>
                            callers'[c].pc = "429"]_vars

\* burst = 1: the first request took the token, a second one 1 / rate later
\* was let through, and a third right after it has just been refused
C19_Witness ==
    \E k \in Keys :
        /\ store.burst = 1
        /\ Cardinality(BucketsOf(k)) = 1
        /\ hist.calls[k] = 3
        /\ hist.allowed[k] = 2
        /\ hist.last = [key |-> k, ok |-> FALSE]
        /\ \A b \in BucketsOf(k) :
              buckets[b].tokens = 0 /\ buckets[b].sinceLast = 0

\* C20: with t the tokens of the bucket after the refill, min(burst, tokens +
\* elapsed * rate), Allow is true iff t holds a whole token, and then the
\* bucket is left with t less one token; otherwise Allow is false and the
\* bucket is left with t; in both cases the time of the last refill is now.
\* The request goes on to the next handler iff Allow was true.
C20_AllowTakesOneToken ==
    [][\A c \in Callers :
        AllowStep(c) =>
            LET l == callers[c].limiter
                t == Min(buckets[l].burst * buckets[l].limit,
                         buckets[l].tokens + buckets[l].sinceLast)
                ok == callers'[c].pc = "next"
            IN  /\ ok <=> t >= buckets[l].limit
                /\ buckets'[l].tokens = IF ok THEN t - buckets[l].limit ELSE t
                /\ buckets'[l].sinceLast = 0
                /\ hist'.last.ok = ok
                /\ \A b \in Callers \ {l} : buckets'[b] = buckets[b]]_vars

\* an Allow has just been refused on a bucket that held half a token after
\* its refill, and the half token is still there
C20_Witness ==
    \E c \in Callers :
        /\ callers[c].pc = "429"
        /\ ~hist.last.ok
        /\ hist.last.key = callers[c].key
        /\ buckets[callers[c].limiter].tokens = 1
        /\ buckets[callers[c].limiter].sinceLast = 0

\* ------------------------------------------- RateLimit's rate conversion
\* the lengths RateLimitWindow may have, in seconds: 1s, 30s, 1m, 1m30s, 1h
Windows == {1, 30, 60, 90, 3600}

\* the Configs Load may return, as far as RateLimit reads them
RateConfigs ==
    [RateLimit : 1..RateLimitBound, RateLimitWindow : Windows,
     RateLimitBurst : {DefaultRateConfig.RateLimitBurst}]

\* time.Duration.Minutes of a duration of d seconds, as a fraction
Minutes(d) == [num |-> d, den |-> 60]

\* float64(n) / f
Quotient(n, f) == [num |-> n * f.den, den |-> f.num]

\* line 150: rate.Limit(float64(cfg.RateLimit) / cfg.RateLimitWindow.Minutes());
\* a rate.Limit counts events per second
LimitRate(cfg) == Quotient(cfg.RateLimit, Minutes(cfg.RateLimitWindow))

\* RateLimit(cfg, next), lines 148-152: the rate.Limit is computed and the
\* store is made with it and cfg.RateLimitBurst
RateLimitNew ==
    /\ rateConf.limit = NoLimit
    /\ rateConf' = [rateConf EXCEPT !.limit = LimitRate(rateConf.cfg)]
    /\ UNCHANGED <<breakerVars, stats, handlerQuery, limiterVars, counter,
                   pagination>>

\* a breaker and a store that nobody calls
QuietInit ==
    /\ BreakerInit({[MaxFailures |-> 1, ResetTimeout |-> ResetTimeoutTicks,
                     FailureTimeout |-> FailureTimeoutTicks,
                     MaxRequests |-> 1]})
    /\ LimiterInit({NewRateLimitStore(TicksPerToken, 1)})

InitRateConf ==
    /\ QuietInit
    /\ CounterInit
    /\ PaginationInit({DefaultQuery})
    /\ RateConfInit(RateConfigs)

NextRateConf == RateLimitNew

SpecRateConf == InitRateConf /\ [][NextRateConf]_vars

\* C21: the rate.Limit RateLimit derives from "RateLimit requests per
\* RateLimitWindow" is RateLimit divided by the length of the window in
\* seconds, so that a key is sustained at RateLimit requests per window.
C21_RatePerWindow ==
    rateConf.limit # NoLimit =>
        rateConf.limit.num * rateConf.cfg.RateLimitWindow
            = rateConf.cfg.RateLimit * rateConf.limit.den

\* -------------------------------------------------------------- pagination
\* the values strconv.Atoi may give for page and page_size: small ones
\* around the limits, and the ends of int's range
Pages == {Int64(n) : n \in (0 - PageBound)..PageBound} \cup {MinInt64, MaxInt64}
PageSizes == {Int64(n) : n \in (0 - 1)..PageSizeBound} \cup {MinInt64, MaxInt64}
Queries == [page : Pages, pageSize : PageSizes]

\* the values SELECT COUNT(*) FROM users may give, and the rows of a page
Totals == 0..TotalBound
Rows == {<<>>, <<"u1">>, <<"u1", "u2">>}

\* NewPaginationParams, lines 31-52; when (page - 1) * pageSize is computed
\* pageSize is no larger than MaxPageSize, so it is one limb
NewPaginationParams(page, pageSize) ==
    LET page1 == IF Less(page, Int64(1)) THEN Int64(1) ELSE page
        size1 == IF Less(pageSize, Int64(MinPageSize))
                 THEN Int64(DefaultPageSize) ELSE pageSize
        size2 == IF Less(Int64(MaxPageSize), size1)
                 THEN Int64(MaxPageSize) ELSE size1
    IN  [Page |-> page1, PageSize |-> size2,
         Offset |-> MulSmall(Dec(page1), size2[1])]

\* mutant: the number of pages is rounded down
NewPaginatedResultFloor(data, params, total) ==
    LET size == params.PageSize[1]
        pages == total \div size
        totalPages == IF pages < 1 THEN 1 ELSE pages
    IN  [Data |-> data, Page |-> params.Page, PageSize |-> params.PageSize,
         Total |-> total, TotalPages |-> totalPages,
         HasNext |-> Less(params.Page, Int64(totalPages)),
         HasPrev |-> Less(Int64(1), params.Page)]

\* NewPaginatedResult, lines 55-70, for params made by NewPaginationParams
\* (PageSize is one limb) and a total that is a number of rows
NewPaginatedResult(data, params, total) ==
    LET size == params.PageSize[1]
        pages == (total + size - 1) \div size
        totalPages == IF pages < 1 THEN 1 ELSE pages
    IN  [Data |-> data, Page |-> params.Page, PageSize |-> params.PageSize,
         Total |-> total, TotalPages |-> totalPages,
         HasNext |-> Less(params.Page, Int64(totalPages)),
         HasPrev |-> Less(Int64(1), params.Page)]

\* parsePaginationParams, line 75: the handler has page and pageSize from
\* the query string and calls NewPaginationParams
ParsePaginationParams ==
    /\ pagination.pc = "parsed"
    /\ pagination' = [pagination EXCEPT
          !.pc = "params",
          !.params = NewPaginationParams(pagination.page, pagination.pageSize)]
    /\ UNCHANGED <<breakerVars, stats, handlerQuery, limiterVars, counter,
                   rateConf>>

\* UserStore.GetAllPaginated: Count gives the total, the query with LIMIT
\* PageSize OFFSET Offset gives the rows (a negative OFFSET is an error of
\* the query), and NewPaginatedResult makes the result
GetAllPaginated(data, total) ==
    /\ pagination.pc = "params"
    /\ ~IsNegative(pagination.params.Offset)
    /\ Len(data) <= total
    /\ pagination' = [pagination EXCEPT
          !.pc = "result",
          !.total = total,
          !.rows = data,
          !.result = NewPaginatedResult(data, pagination.params, total)]
    /\ UNCHANGED <<breakerVars, stats, handlerQuery, limiterVars, counter,
                   rateConf>>

\* UserStore.GetAllPaginated returns an error of Count or of the query
GetAllPaginatedFails ==
    /\ pagination.pc = "params"
    /\ pagination' = [pagination EXCEPT !.pc = "error"]
    /\ UNCHANGED <<breakerVars, stats, handlerQuery, limiterVars, counter,
                   rateConf>>

InitPagination ==
    /\ QuietInit
    /\ CounterInit
    /\ PaginationInit(Queries)
    /\ RateConfInit({DefaultRateConfig})

NextPagination ==
    \/ ParsePaginationParams
    \/ \E data \in Rows : \E total \in Totals : GetAllPaginated(data, total)
    \/ GetAllPaginatedFails

SpecPagination == InitPagination /\ [][NextPagination]_vars

\* C22: NewPaginationParams(page, pageSize) returns Page = max(page, 1),
\* PageSize = 10 when pageSize < 5, 100 when pageSize > 100 and pageSize
\* otherwise, and Offset = (Page - 1) * PageSize; so Page >= 1,
\* 5 <= PageSize <= 100 and Offset >= 0 in every result.
C22_ParamsValidated ==
    pagination.pc # "parsed" =>
        LET q == pagination
            r == pagination.params
        IN  /\ r.Page = IF Less(q.page, Int64(1)) THEN Int64(1) ELSE q.page
            /\ r.PageSize =
                  IF Less(q.pageSize, Int64(MinPageSize))
                  THEN Int64(DefaultPageSize)
                  ELSE IF Less(Int64(MaxPageSize), q.pageSize)
                       THEN Int64(MaxPageSize) ELSE q.pageSize
            /\ r.Offset = MulSmall(Dec(r.Page), r.PageSize[1])
            /\ ~Less(r.Page, Int64(1))
            /\ ~Less(r.PageSize, Int64(MinPageSize))
            /\ ~Less(Int64(MaxPageSize), r.PageSize)
            /\ ~IsNegative(r.Offset)

\* C23: NewPaginatedResult(data, params, total) returns TotalPages =
\* max(1, ceil(total / PageSize)), HasNext iff Page < TotalPages and HasPrev
\* iff Page > 1, with Page, PageSize, Total and Data as they were given; for
\* total = 0 TotalPages is 1 and page 1 has neither HasNext nor HasPrev.
C23_ResultMetadata ==
    pagination.pc = "result" =>
        LET r == pagination.result
            size == pagination.params.PageSize[1]
        IN  /\ r.TotalPages >= 1
            /\ r.TotalPages * size >= pagination.total
            /\ r.TotalPages > 1 => (r.TotalPages - 1) * size < pagination.total
            /\ r.HasNext <=> Less(pagination.params.Page, Int64(r.TotalPages))
            /\ r.HasPrev <=> Less(Int64(1), pagination.params.Page)
            /\ r.Page = pagination.params.Page
            /\ r.PageSize = pagination.params.PageSize
            /\ r.Total = pagination.total
            /\ r.Data = pagination.rows
            /\ pagination.total = 0 =>
                  /\ r.TotalPages = 1
                  /\ pagination.params.Page = Int64(1) =>
                        ~r.HasNext /\ ~r.HasPrev

\* page 2 of 11 users in pages of 5: three pages, one before and one after
C23_Witness ==
    /\ pagination.pc = "result"
    /\ pagination.total = 11
    /\ pagination.params.PageSize = Int64(5)
    /\ pagination.params.Page = Int64(2)
    /\ pagination.result.TotalPages = 3
    /\ pagination.result.HasNext
    /\ pagination.result.HasPrev
    /\ pagination.result.Data = <<"u1", "u2">>

\* ------------------------------------------------ the breaker, continued

\* C24: a recorded success changes requests only when it is the outcome of
\* a call admitted during the current half-open period; the success of a
\* call admitted earlier that is recorded while the breaker is HalfOpen
\* leaves requests as it is and does not close the breaker.
C24_OnlyProbesCount ==
    [][\A p \in Requests :
        (SuccessStep(p) /\ p \notin probing) =>
            /\ cb'.requests = cb.requests
            /\ cb'.state = cb.state]_vars

\* C25: a failure recorded while the breaker is Open adds one to failures,
\* sets lastFailTime to now and leaves the state Open; every recorded
\* failure restarts the time that allowRequest compares with ResetTimeout,
\* so an Execute that finds the breaker Open is rejected as long as the
\* latest recorded failure is no more than ResetTimeout ago.
C25_FailureWhileOpen ==
    [][\A p \in Requests :
        /\ (FailureStep(p) /\ cb.state = StateOpen) =>
              /\ cb'.failures = cb.failures + 1
              /\ cb'.sinceLastFail = 0
              /\ cb'.state = StateOpen
              /\ cb'.requests = cb.requests
        /\ FailureStep(p) => cb'.sinceLastFail = 0
        /\ (cb'.sinceLastFail < cb.sinceLastFail) =>
              \E q \in Requests : FailureStep(q)
        /\ (AdmissionStep(p) /\ cb.state = StateOpen
              /\ cb.sinceLastFail <= cb.config.ResetTimeout) =>
              /\ pc'[p] = "returned"
              /\ cb' = cb]_vars

\* no call has been admitted after an opening, and the breaker counts one
\* failure more than it took to open it: the last one was recorded just now,
\* while Open
C25_Witness ==
    /\ cb.state = StateOpen
    /\ hoAdmitted = 0
    /\ cb.failures = cb.config.MaxFailures + 1
    /\ cb.sinceLastFail = 0
    /\ lastCall.recorded = <<"failure">>

Fairness ==
    /\ WF_vars(Tick)
    /\ \A p \in Requests :
          /\ WF_vars(SelectTimeout(p))
          /\ WF_vars(RecordSuccess(p))
          /\ WF_vars(RecordFailure(p))

SpecFair == Init /\ [][Next]_vars /\ Fairness

\* an admitted call waiting in its select has a deadline no further away
\* than FailureTimeout, and once timeoutCtx is done its select can go on
\* without fn; a goroutine whose fn returns after that is not held up
C27_NeverStuck ==
    /\ \A p \in Requests :
          pc[p] = "select" =>
              /\ left[p] <= cb.config.FailureTimeout
              /\ CtxDone(p) => ENABLED SelectTimeout(p)
    /\ late > 0 => ENABLED LateOpReturn

\* every call waiting in its select comes to return
C27_Returns ==
    \A p \in Requests : (pc[p] = "select") ~> (pc[p] = "returned")

\* C27: every admitted Execute returns, by way of the deadline branch if fn
\* does not return before timeoutCtx is done; the goroutine running fn
\* is never blocked on delivering its result.
C27_AdmittedReturns == []C27_NeverStuck /\ C27_Returns

\* a call has returned ErrCircuitBreakerTimeout at its deadline, and its fn
\* is still running
C27_Witness ==
    /\ lastCall.ret = ErrCircuitBreakerTimeout
    /\ lastCall.opResult = "none"
    /\ ~lastCall.cancelled
    /\ lastCall.invoked = 1
    /\ late > 0
    /\ \E p \in Requests : pc[p] = "returned"

\* ------------------------------------------- the middleware, continued

\* C28: a request that Allow refuses gets status 429 with Retry-After: 60,
\* and the next handler is not invoked for it; for a request that Allow lets
\* through the next handler is invoked exactly once, and RateLimit writes
\* nothing to the response.
C28_Answered ==
    \A c \in Callers :
        /\ callers[c].pc = "429" =>
              resp[c] = [NoResponse EXCEPT !.status = StatusTooManyRequests,
                                           !.retryAfter = "60"]
        /\ callers[c].pc = "next" => resp[c] = [NoResponse EXCEPT !.next = 1]
        /\ callers[c].pc \in {"start", "create", "allow"} =>
              resp[c] = NoResponse

C28_DeniedGets429 ==
    /\ []C28_Answered
    /\ [][\A c \in Callers :
            AllowStep(c) =>
                IF Allow(buckets[callers[c].limiter]).ok
                THEN /\ callers'[c].pc = "next"
                     /\ resp'[c].next = 1
                     /\ resp'[c].status = 0
                ELSE /\ callers'[c].pc = "429"
                     /\ resp'[c].status = StatusTooManyRequests
                     /\ resp'[c].retryAfter = "60"
                     /\ resp'[c].next = 0]_vars

\* one request has gone on to the next handler, and a later one of the same
\* client has been answered 429 with Retry-After: 60
C28_Witness ==
    \E c, d \in Callers :
        /\ callers[c].key = callers[d].key
        /\ callers[c].pc = "next"
        /\ resp[c].next = 1
        /\ callers[d].pc = "429"
        /\ resp[d].status = StatusTooManyRequests
        /\ resp[d].retryAfter = "60"
        /\ resp[d].next = 0

\* ------------------------------------------------- the server's handler
\* the methods of the requests: OPTIONS and one other
Methods == {"GET", "OPTIONS"}

\* mutant: ConfigurableCORS sets its headers and passes every request on
ConfigurableCORSPassesOptions(c, m) ==
    /\ callers[c].pc = "start"
    /\ resp[c].method = "none"
    /\ \A d \in Callers : d < c => resp[d].method # "none"
    /\ resp' = [resp EXCEPT ![c].method = m]
    /\ UNCHANGED <<store, buckets, callers, hist>>
    /\ UNCHANGED outsideLimiter

\* the handler main builds: Recovery, Logger and SecurityHeaders pass
\* request c with method m on, and ConfigurableCORS (lines 81-112) answers
\* it with 200 if it is an OPTIONS request and else passes it on to RateLimit
ConfigurableCORS(c, m) ==
    /\ callers[c].pc = "start"
    /\ resp[c].method = "none"
    /\ \A d \in Callers : d < c => resp[d].method # "none"
    /\ IF m = "OPTIONS"
       THEN /\ resp' = [resp EXCEPT ![c].method = m, ![c].status = StatusOK]
            /\ callers' = [callers EXCEPT ![c].pc = "done"]
       ELSE /\ resp' = [resp EXCEPT ![c].method = m]
            /\ UNCHANGED callers
    /\ UNCHANGED <<store, buckets, hist>>
    /\ UNCHANGED outsideLimiter

\* the handler of RateLimit for a request that ConfigurableCORS passed on
RateLimitServe(c, k) ==
    /\ resp[c].method # "none"
    /\ RateLimitLookup(c, k)

\* mux: the route handler of a request that RateLimit passed on runs and
\* answers it
MuxServe(c) ==
    /\ callers[c].pc = "next"
    /\ callers' = [callers EXCEPT ![c].pc = "served"]
    /\ resp' = [resp EXCEPT ![c].status = StatusOK]
    /\ UNCHANGED <<store, buckets, hist>>
    /\ UNCHANGED outsideLimiter

NextChain ==
    \/ \E c \in Callers : \E m \in Methods : ConfigurableCORS(c, m)
    \/ \E c \in Callers : \E k \in Keys : RateLimitServe(c, k)
    \/ \E c \in Callers : GetLimiterCreate(c)
    \/ \E c \in Callers : RateLimitAllow(c)
    \/ \E c \in Callers : MuxServe(c)
    \/ LimiterTick

\* the server as main starts it, with a store whose burst is 1
InitChain ==
    /\ QuietInit
    /\ StoreInit

SpecChain == InitChain /\ [][NextChain]_vars

\* the requests that have had an answer from Allow
Limited == {c \in Callers : callers[c].pc \in {"next", "429", "served"}}

\* C29: an OPTIONS request is answered 200 by ConfigurableCORS and does not
\* reach RateLimit: it has no key looked up and no limiter, takes no token,
\* is never answered 429, and no route handler runs for it; for every other
\* request a route handler runs only after Allow has let it through.
C29_Answers ==
    /\ \A c \in Callers :
          /\ resp[c].method = "OPTIONS" =>
                /\ resp[c] = [NoResponse EXCEPT !.method = "OPTIONS",
                                                !.status = StatusOK]
                /\ callers[c] = [NoCaller EXCEPT !.pc = "done"]
                /\ c \notin Limited
          /\ resp[c].next > 0 =>
                /\ resp[c].next = 1
                /\ resp[c].method \in Methods \ {"OPTIONS"}
                /\ c \in Limited
                /\ callers[c].limiter # NoEntry
                /\ hist.allowed[callers[c].key] >= 1
          /\ callers[c].pc = "served" => resp[c].next = 1
    /\ hist.calls["ipA"] + hist.calls["ipB"] = Cardinality(Limited)

C29_OptionsSkipRateLimit ==
    /\ []C29_Answers
    /\ [][\A c \in Callers :
            (resp'[c].method = "OPTIONS" /\ resp'[c] # resp[c]) =>
                /\ resp'[c].status = StatusOK
                /\ UNCHANGED <<store, buckets, hist>>]_vars

\* a client has used up its burst; its OPTIONS request that follows is
\* answered 200, and the request after that is refused with 429
C29_Witness ==
    \E b, c, d \in Callers :
        /\ b < c /\ c < d
        /\ callers[b].pc = "served"
        /\ resp[c].method = "OPTIONS"
        /\ resp[c].status = StatusOK
        /\ callers[d].pc = "429"
        /\ callers[d].key = callers[b].key
        /\ hist.undisturbed[callers[b].key]
        /\ store.burst = 1

\* ------------------------------------------------------ the counter store
\* mutant: Decrement stops at 0
ExecUpdateFloor(op, count) ==
    CASE op = "Increment" -> count + 1
      [] op = "Decrement" -> IF count > 0 THEN count - 1 ELSE 0
      [] OTHER -> 0

\* the three statements UPDATE counter_state SET count = ... WHERE id = $1
\* RETURNING count: the count the row has after the statement
ExecUpdate(op, count) ==
    CASE op = "Increment" -> count + 1
      [] op = "Decrement" -> count - 1
      [] OTHER -> 0

\* Handlers.CounterIncrement, CounterDecrement or CounterReset is called for
\* request r and its store method sends the statement with QueryRow
CounterRequest(r, op) ==
    /\ counter.reqs[r].pc = "start"
    /\ \A q \in CounterRequests : q < r => counter.reqs[q].pc # "start"
    /\ counter' = [counter EXCEPT !.reqs[r].pc = "query", !.reqs[r].op = op]
    /\ UNCHANGED <<breakerVars, stats, handlerQuery, limiterVars, pagination,
                   rateConf>>

\* the database executes the statement of request r, one statement at a
\* time on the one row, and row.Scan puts the returned count into the
\* request's count
CounterUpdate(r) ==
    /\ counter.reqs[r].pc = "query"
    /\ LET op == counter.reqs[r].op
           new == ExecUpdate(op, counter.count)
       IN  counter' = [counter EXCEPT
              !.count = new,
              !.applied = CASE op = "Increment" -> @ + 1
                            [] op = "Decrement" -> @ - 1
                            [] OTHER -> 0,
              !.reqs[r].pc = "scanned",
              !.reqs[r].count = new]
    /\ UNCHANGED <<breakerVars, stats, handlerQuery, limiterVars, pagination,
                   rateConf>>

\* the statement of request r fails (row.Scan returns an error): the row is
\* as it was, the store method returns 0 and the error, and the handler
\* answers with handleError
CounterUpdateFails(r) ==
    /\ counter.reqs[r].pc = "query"
    /\ counter' = [counter EXCEPT !.reqs[r].pc = "error"]
    /\ UNCHANGED <<breakerVars, stats, handlerQuery, limiterVars, pagination,
                   rateConf>>

\* the handler renders CountDisplay(count) with the count its store method
\* returned
CounterRender(r) ==
    /\ counter.reqs[r].pc = "scanned"
    /\ counter' = [counter EXCEPT !.reqs[r].pc = "rendered"]
    /\ UNCHANGED <<breakerVars, stats, handlerQuery, limiterVars, pagination,
                   rateConf>>

InitCounter ==
    /\ QuietInit
    /\ StoreInit

NextCounter ==
    \/ \E r \in CounterRequests : \E op \in CounterOps : CounterRequest(r, op)
    \/ \E r \in CounterRequests : CounterUpdate(r)
    \/ \E r \in CounterRequests : CounterUpdateFails(r)
    \/ \E r \in CounterRequests : CounterRender(r)

SpecCounter == InitCounter /\ [][NextCounter]_vars

\* the statement of request r is executed in this step
UpdateStep(r) ==
    counter.reqs[r].pc = "query" /\ counter'.reqs[r].pc = "scanned"

\* the count stored is the increments less the decrements applied since the
\* last reset, and a request that is being answered holds a count
C30_CountIsNet ==
    /\ counter.count = counter.applied
    /\ \A r \in CounterRequests :
          counter.reqs[r].pc \in {"start", "query", "error"} =>
              counter.reqs[r].count = 0

\* C30: after any interleaving of successful counter requests the stored
\* count is the number of increments less the number of decrements applied
\* since the last reset, 0 right after a reset; each request returns the
\* count its own statement produced, one more or one less than the count the
\* statement found; a request that fails or has not run its statement leaves
\* the row as it is.
C30_NoLostUpdate ==
    /\ []C30_CountIsNet
    /\ [][\A r \in CounterRequests :
            /\ UpdateStep(r) =>
                  /\ counter'.reqs[r].count = counter'.count
                  /\ counter.reqs[r].op = "Increment" =>
                        counter'.count = counter.count + 1
                  /\ counter.reqs[r].op = "Decrement" =>
                        counter'.count = counter.count - 1
                  /\ counter.reqs[r].op = "Reset" => counter'.count = 0
                  /\ \A q \in CounterRequests \ {r} :
                        counter'.reqs[q] = counter.reqs[q]
            /\ (counter'.reqs[r] # counter.reqs[r] /\ ~UpdateStep(r)) =>
                  /\ counter'.count = counter.count
                  /\ counter'.reqs[r].count = counter.reqs[r].count]_vars

\* three requests in flight at once, two increments and a decrement: the
\* decrement ran between the increments and returned 0, the row holds 1
C30_Witness ==
    /\ \A r \in CounterRequests : counter.reqs[r].pc = "scanned"
    /\ counter.reqs[1].op = "Increment" /\ counter.reqs[1].count = 1
    /\ counter.reqs[2].op = "Increment" /\ counter.reqs[2].count = 1
    /\ counter.reqs[3].op = "Decrement" /\ counter.reqs[3].count = 0
    /\ counter.count = 1
====
